---- MODULE Spec2Model ----
(***************************************************************************)
(* quasm: a two-pass assembler (src/main.rs).  The run of `main` is        *)
(* modelled as a sequential state machine whose positions are the          *)
(* statements of `compile`, `resolve` and `write_lines`.  Strings are      *)
(* sequences of one-character strings, so that `starts_with`, `split` and  *)
(* `parse::<i16>` are computed, not assumed.                               *)
(***************************************************************************)
EXTENDS Integers, Sequences, FiniteSets, TLC

(***************************************************************************)
(* Bounds of the model.                                                    *)
(***************************************************************************)
\* longest source program of the pipeline specification, in lines
MaxLines == 4

\* longest argument token of the parsing specification built from TokenAlphabet
MaxTokenLen == 3

\* most Instruction lines of a program of the long-program specification
MaxInstructions == 32770

(***************************************************************************)
(* Machine integers.                                                       *)
(***************************************************************************)
I16_MIN == -32768
I16_MAX == 32767
TwoTo16 == 65536

\* faulty variant: i16 arithmetic saturates at the ends of the range
SaturateI16(n) == IF n > 32767 THEN 32767 ELSE IF n < -32768 THEN -32768 ELSE n

\* the value an i16 holds after an arithmetic result n is truncated to 16 bits
WrapI16(n) == ((n + 32768) % TwoTo16) - 32768

(***************************************************************************)
(* Strings.                                                                *)
(***************************************************************************)
Digits == {"0", "1", "2", "3", "4", "5", "6", "7", "8", "9"}

DigitValue(c) ==
    CASE c = "0" -> 0 [] c = "1" -> 1 [] c = "2" -> 2 [] c = "3" -> 3
      [] c = "4" -> 4 [] c = "5" -> 5 [] c = "6" -> 6 [] c = "7" -> 7
      [] c = "8" -> 8 [] c = "9" -> 9

\* s.starts_with(":")
starts_with_colon(s) == Len(s) > 0 /\ Head(s) = ":"

\* the value of a non-empty run of decimal digits
RECURSIVE DecimalValue(_)
DecimalValue(ds) ==
    IF Len(ds) = 0 THEN 0
    ELSE 10 * DecimalValue(SubSeq(ds, 1, Len(ds) - 1)) + DigitValue(ds[Len(ds)])

\* s.parse::<i16>(): an optional '-' and at least one decimal digit, in range
str_parse_i16(s) ==
    LET neg    == Len(s) > 0 /\ Head(s) = "-"
        digits == IF neg THEN Tail(s) ELSE s
        wellformed == Len(digits) > 0 /\ \A i \in 1..Len(digits) : digits[i] \in Digits
        v      == IF neg THEN 0 - DecimalValue(digits) ELSE DecimalValue(digits)
    IN  IF wellformed /\ v >= I16_MIN /\ v <= I16_MAX
        THEN [ok |-> TRUE, value |-> v]
        ELSE [ok |-> FALSE, value |-> 0]

\* line.split(" "): the pieces between single spaces, empty pieces included
RECURSIVE SplitFrom(_, _, _)
SplitFrom(s, i, cur) ==
    IF i > Len(s) THEN <<cur>>
    ELSE IF s[i] = " " THEN <<cur>> \o SplitFrom(s, i + 1, <<>>)
    ELSE SplitFrom(s, i + 1, Append(cur, s[i]))

split_space(s) == SplitFrom(s, 1, <<>>)

(***************************************************************************)
(* Line and Argument.                                                      *)
(***************************************************************************)
ArgInteger(v) == [tag |-> "Integer", value |-> v, name |-> <<>>]
ArgLabel(n)   == [tag |-> "Label", value |-> 0, name |-> n]
ArgNone       == [tag |-> "None", value |-> 0, name |-> <<>>]

LineInstruction(opcode, arg) ==
    [kind |-> "Instruction", opcode |-> opcode, arg |-> arg, name |-> <<>>]
LineLabel(name) ==
    [kind |-> "Label", opcode |-> <<>>, arg |-> ArgNone, name |-> name]

\* faulty variant: a token that does not parse is taken for a label reference
parse_arg_unparsed_is_label(parts) ==
    IF Len(parts) = 0 THEN ArgNone
    ELSE LET s == Head(parts)
         IN  IF starts_with_colon(s) \/ ~str_parse_i16(s).ok THEN ArgLabel(s)
             ELSE ArgInteger(str_parse_i16(s).value)

\* part: the sequence of remaining tokens; <<>> is Option::None
parse_arg(parts) ==
    IF Len(parts) = 0 THEN ArgNone
    ELSE LET s == Head(parts)
         IN  IF starts_with_colon(s) THEN ArgLabel(s)
             ELSE IF str_parse_i16(s).ok THEN ArgInteger(str_parse_i16(s).value)
             ELSE ArgNone

parse_line(line) ==
    IF starts_with_colon(line) THEN LineLabel(line)
    ELSE LET parts == split_space(line)
         IN  LineInstruction(Head(parts), parse_arg(Tail(parts)))

RECURSIVE MapParseLine(_)
MapParseLine(raw) ==
    IF Len(raw) = 0 THEN <<>>
    ELSE <<parse_line(Head(raw))>> \o MapParseLine(Tail(raw))

(***************************************************************************)
(* resolve: addresses, label table, arguments.                             *)
(***************************************************************************)
\* the for loop of lines_with_addresses, from line i with the counter at address
RECURSIVE AddressLoop(_, _, _)
AddressLoop(ls, i, address) ==
    IF i > Len(ls) THEN <<>>
    ELSE <<[line |-> ls[i], address |-> address]>>
         \o AddressLoop(ls, i + 1,
                        IF ls[i].kind = "Instruction" THEN WrapI16(address + 1)
                        ELSE address)

\* faulty variant: the counter advances on every line, label definitions included
RECURSIVE AddressLoopEveryLine(_, _, _)
AddressLoopEveryLine(ls, i, address) ==
    IF i > Len(ls) THEN <<>>
    ELSE <<[line |-> ls[i], address |-> address]>>
         \o AddressLoopEveryLine(ls, i + 1, WrapI16(address + 1))

lines_with_addresses_every_line(ls) == AddressLoopEveryLine(ls, 1, 0)

lines_with_addresses(ls) == AddressLoop(ls, 1, 0)

\* HashMap::insert
MapInsert(m, k, v) == [x \in (DOMAIN m) \cup {k} |-> IF x = k THEN v ELSE m[x]]

EmptyMap == [x \in {} |-> 0]

\* the for loop of find_labels, having handled the first n lines
RECURSIVE LabelLoop(_, _)
LabelLoop(lwa, n) ==
    IF n = 0 THEN EmptyMap
    ELSE LET labels == LabelLoop(lwa, n - 1)
         IN  IF lwa[n].line.kind = "Label"
             THEN MapInsert(labels, lwa[n].line.name, lwa[n].address)
             ELSE labels

\* faulty variant: an existing entry is kept, so the first definition wins
RECURSIVE LabelLoopKeepFirst(_, _)
LabelLoopKeepFirst(lwa, n) ==
    IF n = 0 THEN EmptyMap
    ELSE LET labels == LabelLoopKeepFirst(lwa, n - 1)
         IN  IF lwa[n].line.kind = "Label" /\ lwa[n].line.name \notin DOMAIN labels
             THEN MapInsert(labels, lwa[n].line.name, lwa[n].address)
             ELSE labels

find_labels_keep_first(lwa) == LabelLoopKeepFirst(lwa, Len(lwa))

find_labels(lwa) == LabelLoop(lwa, Len(lwa))

\* indexing the table with a missing key panics
ArgPanics(labels, arg) == arg.tag = "Label" /\ arg.name \notin DOMAIN labels

\* faulty variant: the displacement is taken from the instruction's own address
resolve_arg_from_own_address(labels, address, arg) ==
    CASE arg.tag = "Integer" -> arg.value
      [] arg.tag = "Label" -> WrapI16(labels[arg.name] - address)
      [] arg.tag = "None" -> 0

resolve_arg(labels, address, arg) ==
    CASE arg.tag = "Integer" -> arg.value
      [] arg.tag = "Label" -> WrapI16(labels[arg.name] - WrapI16(address + 1))
      [] arg.tag = "None" -> 0

\* faulty variant: resolution stops at the first label definition (take_while for filter_map)
RECURSIVE ResolveLoopUntilLabel(_, _, _)
ResolveLoopUntilLabel(labels, lwa, i) ==
    IF i > Len(lwa) THEN <<>>
    ELSE IF lwa[i].line.kind = "Instruction"
         THEN <<[opcode |-> lwa[i].line.opcode,
                 arg |-> resolve_arg(labels, lwa[i].address, lwa[i].line.arg)]>>
              \o ResolveLoopUntilLabel(labels, lwa, i + 1)
         ELSE <<>>

\* filter_map(resolve_line): instructions kept in order, labels dropped
RECURSIVE ResolveLoop(_, _, _)
ResolveLoop(labels, lwa, i) ==
    IF i > Len(lwa) THEN <<>>
    ELSE IF lwa[i].line.kind = "Instruction"
         THEN <<[opcode |-> lwa[i].line.opcode,
                 arg |-> resolve_arg(labels, lwa[i].address, lwa[i].line.arg)]>>
              \o ResolveLoop(labels, lwa, i + 1)
         ELSE ResolveLoop(labels, lwa, i + 1)

ResolvePanics(labels, lwa) ==
    \E i \in 1..Len(lwa) :
        lwa[i].line.kind = "Instruction" /\ ArgPanics(labels, lwa[i].line.arg)

(***************************************************************************)
(* Encoding.                                                               *)
(***************************************************************************)
OP_const == <<"c", "o", "n", "s", "t">>
OP_pop   == <<"p", "o", "p">>
OP_dup   == <<"d", "u", "p">>
OP_swap  == <<"s", "w", "a", "p">>
OP_cmp   == <<"c", "m", "p">>
OP_add   == <<"a", "d", "d">>
OP_mul   == <<"m", "u", "l">>
OP_jmp   == <<"j", "m", "p">>
OP_jle   == <<"j", "l", "e">>

Opcodes == {OP_const, OP_pop, OP_dup, OP_swap, OP_cmp, OP_add, OP_mul, OP_jmp, OP_jle}

\* the `_ => panic!("Unrecognised opcode")` arm
OpcodePanics(name) == name \notin Opcodes

encode_opcode(name) ==
    CASE name = OP_const -> 0
      [] name = OP_pop   -> 1
      [] name = OP_dup   -> 2
      [] name = OP_swap  -> 3
      [] name = OP_cmp   -> 4
      [] name = OP_add   -> 5
      [] name = OP_mul   -> 6
      [] name = OP_jmp   -> 7
      [] name = OP_jle   -> 8

\* faulty variant: the argument is shifted by 8 bits
encode_instruction_shift_8(instruction) ==
    LET bytecode == encode_opcode(instruction.opcode)
        arg      == instruction.arg
    IN  bytecode + (arg * 256)

\* `arg as i32` sign-extends, so arg << 16 is arg * 2^16 and lies in
\* -2^31 .. 2^31 - 2^16; adding a code of 0..8 stays inside the i32 range
encode_instruction(instruction) ==
    LET bytecode == encode_opcode(instruction.opcode)
        arg      == instruction.arg
    IN  bytecode + (arg * TwoTo16)

RECURSIVE MapEncode(_)
MapEncode(instrs) ==
    IF Len(instrs) = 0 THEN <<>>
    ELSE <<encode_instruction(Head(instrs))>> \o MapEncode(Tail(instrs))

EncodePanics(instrs) == \E i \in 1..Len(instrs) : OpcodePanics(instrs[i].opcode)

(***************************************************************************)
(* The source programs of the pipeline specification.                      *)
(***************************************************************************)
SRC_pop     == <<"p", "o", "p">>
SRC_const_m2 == <<"c", "o", "n", "s", "t", " ", "-", "2">>
SRC_jmp_L   == <<"j", "m", "p", " ", ":", "L">>
SRC_jle_M   == <<"j", "l", "e", " ", ":", "M">>
SRC_def_L   == <<":", "L">>
SRC_def_M   == <<":", "M">>
SRC_bogus   == <<"b", "o", "g", "u", "s">>

SourceLines == {SRC_pop, SRC_const_m2, SRC_jmp_L, SRC_jle_M, SRC_def_L, SRC_def_M, SRC_bogus}

Programs == UNION {[1..n -> SourceLines] : n \in 0..MaxLines}

(***************************************************************************)
(* The destination file and the BufWriter.                                 *)
(***************************************************************************)
\* the capacity of BufWriter::new's buffer, in words, scaled down: a slice at
\* least this long bypasses the buffer and is written to the file directly
BufWriterCapacity == 2

FileAbsent == [exists |-> FALSE, words |-> <<>>]
FileWith(ws) == [exists |-> TRUE, words |-> ws]

\* the words left in the destination by an earlier run
OldWords == <<1>>

Prefix(ws, k) == SubSeq(ws, 1, k)
Suffix(ws, k) == SubSeq(ws, k + 1, Len(ws))

(***************************************************************************)
(* State.                                                                  *)
(***************************************************************************)
VARIABLES
    pc,                   \* the statement `main` is about to execute
    source,               \* the lines of the file at source_path
    dest,                 \* the file at destination_path
    dest_before,          \* the file at destination_path when the run began
    raw_lines,            \* compile: raw_lines
    lines,                \* compile: lines, collected for resolve
    addressed,            \* resolve: lines_with_addresses
    label_addresses,      \* resolve: label_addresses
    instructions,         \* compile: instructions
    bytecodes_vec,        \* write_lines: bytecodes_vec
    buffer,               \* write_lines: the words held in writer's buffer
    result,               \* the io::Result compile returns, "none" before it does
    stdout,               \* what main printed with println!
    panic_message,        \* the message of the panic that ended the run, or "none"
    exit_status,          \* the status the process ended with, or "running"
    address,              \* lines_with_addresses: the counter `address`
    n_instr,              \* the Instruction lines lines_with_addresses has passed
    overflow_checks       \* whether the build checks integer overflow

vars == <<pc, source, dest, dest_before, raw_lines, lines, addressed, label_addresses,
          instructions, bytecodes_vec, buffer, result, stdout, panic_message, exit_status,
          address, n_instr, overflow_checks>>

env == <<source, dest_before, overflow_checks>>

\* the loop state of the long-program specification, untouched by the others
scan == <<address, n_instr>>

\* an io::Result that is an Err, named after the call that failed
IsErr(r) == r \in {"Err: source", "Err: create", "Err: write"}

Init ==
    /\ pc = "main"
    /\ source \in Programs
    /\ dest_before \in {FileAbsent, FileWith(OldWords)}
    /\ dest = dest_before
    /\ raw_lines = <<>>
    /\ lines = <<>>
    /\ addressed = <<>>
    /\ label_addresses = EmptyMap
    /\ instructions = <<>>
    /\ bytecodes_vec = <<>>
    /\ buffer = <<>>
    /\ result = "none"
    /\ stdout = <<>>
    /\ panic_message = "none"
    /\ exit_status = "running"
    /\ address = 0
    /\ n_instr = 0
    /\ overflow_checks \in BOOLEAN

\* a panic unwinds main: the message goes to stderr and the process ends with 101
Panic(msg) ==
    /\ pc' = "exited"
    /\ panic_message' = msg
    /\ exit_status' = 101

(***************************************************************************)
(* main and compile.                                                       *)
(***************************************************************************)
MainStart ==
    /\ pc = "main"
    /\ stdout' = Append(stdout, "Hello, world!")
    /\ pc' = "read_lines"
    /\ UNCHANGED <<env, scan, dest, raw_lines, lines, addressed, label_addresses, instructions,
                   bytecodes_vec, buffer, result, panic_message, exit_status>>

\* try!(read_lines(source_path)): File::open or a read may fail
ReadLines ==
    /\ pc = "read_lines"
    /\ \/ /\ raw_lines' = source
          /\ pc' = "parse_lines"
          /\ UNCHANGED result
       \/ /\ result' = "Err: source"
          /\ pc' = "report"
          /\ UNCHANGED raw_lines
    /\ UNCHANGED <<env, scan, dest, lines, addressed, label_addresses, instructions,
                   bytecodes_vec, buffer, stdout, panic_message, exit_status>>

\* raw_lines.iter().map(parse_line), forced by lines.collect()
ParseLines ==
    /\ pc = "parse_lines"
    /\ lines' = MapParseLine(raw_lines)
    /\ pc' = "lines_with_addresses"
    /\ UNCHANGED <<env, scan, dest, raw_lines, addressed, label_addresses, instructions,
                   bytecodes_vec, buffer, result, stdout, panic_message, exit_status>>

(***************************************************************************)
(* resolve.                                                                *)
(***************************************************************************)
AssignAddresses ==
    /\ pc = "lines_with_addresses"
    /\ addressed' = lines_with_addresses(lines)
    /\ pc' = "find_labels"
    /\ UNCHANGED <<env, scan, dest, raw_lines, lines, label_addresses, instructions,
                   bytecodes_vec, buffer, result, stdout, panic_message, exit_status>>

FindLabels ==
    /\ pc = "find_labels"
    /\ label_addresses' = find_labels(addressed)
    /\ pc' = "resolve_lines"
    /\ UNCHANGED <<env, scan, dest, raw_lines, lines, addressed, instructions,
                   bytecodes_vec, buffer, result, stdout, panic_message, exit_status>>

\* faulty variant: resolve hands back a lazy iterator, so nothing is resolved (and nothing
\* panics) before write_lines runs
ResolveLinesLazily ==
    /\ pc = "resolve_lines"
    /\ instructions' = IF ResolvePanics(label_addresses, addressed) THEN <<>>
                       ELSE ResolveLoop(label_addresses, addressed, 1)
    /\ pc' = "create"
    /\ UNCHANGED <<env, scan, dest, raw_lines, lines, addressed, label_addresses,
                   bytecodes_vec, buffer, result, stdout, panic_message, exit_status>>

ResolveLines ==
    /\ pc = "resolve_lines"
    /\ \/ /\ ~ResolvePanics(label_addresses, addressed)
          /\ instructions' = ResolveLoop(label_addresses, addressed, 1)
          /\ pc' = "create"
          /\ UNCHANGED <<panic_message, exit_status>>
       \/ /\ ResolvePanics(label_addresses, addressed)
          /\ Panic("no entry found for key")
          /\ UNCHANGED instructions
    /\ UNCHANGED <<env, scan, dest, raw_lines, lines, addressed, label_addresses,
                   bytecodes_vec, buffer, result, stdout>>

(***************************************************************************)
(* write_lines.                                                            *)
(***************************************************************************)
\* try!(File::create(path)): creates or truncates the destination, or fails
CreateFile ==
    /\ pc = "create"
    /\ \/ /\ dest' = FileWith(<<>>)
          /\ pc' = "collect"
          /\ UNCHANGED result
       \/ /\ result' = "Err: create"
          /\ pc' = "report"
          /\ UNCHANGED dest
    /\ UNCHANGED <<env, scan, raw_lines, lines, addressed, label_addresses, instructions,
                   bytecodes_vec, buffer, stdout, panic_message, exit_status>>

\* bytecodes.collect(): the lazy map(encode_instruction) runs here
Collect ==
    /\ pc = "collect"
    /\ \/ /\ ~EncodePanics(instructions)
          /\ bytecodes_vec' = MapEncode(instructions)
          /\ pc' = "write_all"
          /\ UNCHANGED <<panic_message, exit_status>>
       \/ /\ EncodePanics(instructions)
          /\ Panic("Unrecognised opcode")
          /\ UNCHANGED bytecodes_vec
    /\ UNCHANGED <<env, scan, dest, raw_lines, lines, addressed, label_addresses, instructions,
                   buffer, result, stdout>>

\* writer.write_all(bytes)
WriteAll ==
    /\ pc = "write_all"
    /\ \/ \* shorter than the buffer: held in the buffer, nothing written yet
          /\ Len(bytecodes_vec) < BufWriterCapacity
          /\ buffer' = bytecodes_vec
          /\ result' = "Ok"
          /\ UNCHANGED dest
       \/ \* written to the file directly, all of it
          /\ Len(bytecodes_vec) >= BufWriterCapacity
          /\ dest' = FileWith(bytecodes_vec)
          /\ result' = "Ok"
          /\ UNCHANGED buffer
       \/ \* a direct write accepts k words and the next one fails
          /\ Len(bytecodes_vec) >= BufWriterCapacity
          /\ \E k \in 0..(Len(bytecodes_vec) - 1) :
                dest' = FileWith(Prefix(bytecodes_vec, k))
          /\ result' = "Err: write"
          /\ UNCHANGED buffer
       \/ \* a direct write accepts k words and the rest fits the buffer
          /\ Len(bytecodes_vec) >= BufWriterCapacity
          /\ \E k \in 1..(Len(bytecodes_vec) - 1) :
                /\ Len(bytecodes_vec) - k < BufWriterCapacity
                /\ dest' = FileWith(Prefix(bytecodes_vec, k))
                /\ buffer' = Suffix(bytecodes_vec, k)
          /\ result' = "Ok"
    /\ pc' = "drop_writer"
    /\ UNCHANGED <<env, scan, raw_lines, lines, addressed, label_addresses, instructions,
                   bytecodes_vec, stdout, panic_message, exit_status>>

\* writer goes out of scope: the buffer is flushed and a failure is ignored
DropWriter ==
    /\ pc = "drop_writer"
    /\ \E k \in 0..Len(buffer) :
          dest' = FileWith(dest.words \o Prefix(buffer, k))
    /\ buffer' = <<>>
    /\ pc' = "report"
    /\ UNCHANGED <<env, scan, raw_lines, lines, addressed, label_addresses, instructions,
                   bytecodes_vec, result, stdout, panic_message, exit_status>>

\* main's match on compile's result; main then returns normally
Report ==
    /\ pc = "report"
    /\ \/ /\ result = "Ok"
          /\ stdout' = Append(stdout, "Finished")
       \/ /\ IsErr(result)
          /\ stdout' = Append(stdout, result)
    /\ pc' = "exited"
    /\ exit_status' = 0
    /\ UNCHANGED <<env, scan, dest, raw_lines, lines, addressed, label_addresses, instructions,
                   bytecodes_vec, buffer, result, panic_message>>

Next ==
    \/ MainStart
    \/ ReadLines
    \/ ParseLines
    \/ AssignAddresses
    \/ FindLabels
    \/ ResolveLines
    \/ CreateFile
    \/ Collect
    \/ WriteAll
    \/ DropWriter
    \/ Report

Spec == Init /\ [][Next]_vars

(***************************************************************************)
(* Properties of the pipeline.                                             *)
(***************************************************************************)
\* the number of Instruction lines before line i
InstrBefore(i) == Cardinality({j \in 1..(i - 1) : lines[j].kind = "Instruction"})

InstrCount == InstrBefore(Len(lines) + 1)

\* the lines that define the label an argument names
DefsOf(name) == {d \in 1..Len(lines) : lines[d].kind = "Label" /\ lines[d].name = name}

\* the lines that are instructions with a label reference
RefLines == {i \in 1..Len(lines) :
                lines[i].kind = "Instruction" /\ lines[i].arg.tag = "Label"}

SetMax(S) == CHOOSE m \in S : \A x \in S : x <= m

HasUndefinedRef == \E i \in RefLines : DefsOf(lines[i].arg.name) = {}

HasUnknownOpcode ==
    \E i \in 1..Len(lines) : lines[i].kind = "Instruction" /\ lines[i].opcode \notin Opcodes

BeforeAddressing == {"main", "read_lines", "parse_lines", "lines_with_addresses"}
BeforeResolving  == BeforeAddressing \cup {"find_labels", "resolve_lines"}

\* resolve has returned its vector of instructions
Resolved ==
    /\ pc \notin BeforeResolving
    /\ panic_message # "no entry found for key"

\* C1: when resolve returns, every instruction at address r that refers to a label
\* defined once, before the instruction at address a (or at the end, a being the
\* instruction count), carries a - (r + 1), for definitions before and after it
C1_DisplacementLaw ==
    Resolved =>
        \A i \in RefLines : \A d \in DefsOf(lines[i].arg.name) :
            DefsOf(lines[i].arg.name) = {d} =>
                instructions[InstrBefore(i) + 1].arg = InstrBefore(d) - (InstrBefore(i) + 1)

C1_Witness ==
    /\ Resolved
    /\ \E i \in RefLines : \E d \in DefsOf(lines[i].arg.name) :
          d < i /\ DefsOf(lines[i].arg.name) = {d} /\ InstrBefore(d) < InstrBefore(i)
    /\ \E i \in RefLines : \E d \in DefsOf(lines[i].arg.name) :
          d > i /\ DefsOf(lines[i].arg.name) = {d} /\ d = Len(lines)

\* the opcode table of the binary format, code k at position k + 1
OpcodeTable == <<OP_const, OP_pop, OP_dup, OP_swap, OP_cmp, OP_add, OP_mul, OP_jmp, OP_jle>>

CodeOf(name) == CHOOSE c \in 0..8 : OpcodeTable[c + 1] = name

\* the k-th Instruction line of the source
KthInstrLine(k) ==
    CHOOSE i \in 1..Len(lines) : lines[i].kind = "Instruction" /\ InstrBefore(i) = k - 1

\* write_lines has collected the words it hands to the writer
Encoded ==
    \/ pc \in {"write_all", "drop_writer"}
    \/ pc \in {"report", "exited"} /\ result \in {"Ok", "Err: write"}

\* C2: the words handed to the writer are as many as the Instruction lines, label
\* definitions add none, and the k-th is the k-th Instruction line's opcode code
\* with its resolved argument in the upper half; the destination holds these words
\* from the first on, and no others
C2_OneWordPerInstruction ==
    Encoded =>
        /\ Len(bytecodes_vec) = InstrCount
        /\ \A k \in 1..InstrCount :
              /\ instructions[k].opcode = lines[KthInstrLine(k)].opcode
              /\ bytecodes_vec[k] =
                    CodeOf(lines[KthInstrLine(k)].opcode) + instructions[k].arg * 65536
        /\ Len(dest.words) <= InstrCount
        /\ dest.words = Prefix(bytecodes_vec, Len(dest.words))

C2_Witness ==
    /\ Encoded /\ pc = "exited" /\ result = "Ok"
    /\ InstrCount >= 2 /\ InstrCount < Len(lines)
    /\ \E i \in 2..(Len(lines) - 1) : lines[i].kind = "Label"
    /\ \E k \in 1..InstrCount : instructions[k].arg < 0

\* the run ended in failure: compile returned an error, or a panic ended it
RunFailed == pc = "exited" /\ (IsErr(result) \/ panic_message # "none")

\* C4: a run that ended in failure has written no encoded word to the destination
C4_NoPartialOutput ==
    RunFailed => (dest = dest_before \/ dest.words = <<>>)

\* C5: the process ends with the success indication only when the whole pipeline
\* succeeded, and with a fatal one on every failure
C5_SuccessOnlyOnSuccess ==
    pc = "exited" =>
        /\ (exit_status = 0 => result = "Ok" /\ dest = FileWith(bytecodes_vec))
        /\ (RunFailed => exit_status # 0)

\* C7: once addresses are assigned, every line carries the number of Instruction
\* lines before it
C7_AddressIsInstrCountBefore ==
    pc \notin BeforeAddressing =>
        /\ Len(addressed) = Len(lines)
        /\ \A i \in 1..Len(lines) :
              addressed[i].line = lines[i] /\ addressed[i].address = InstrBefore(i)

C7_Witness ==
    /\ pc = "find_labels" /\ Len(lines) = MaxLines
    /\ lines[1].kind = "Instruction"
    /\ lines[2].kind = "Label" /\ lines[3].kind = "Label" /\ addressed[3].address = 1
    /\ lines[Len(lines)].kind = "Label" /\ addressed[Len(lines)].address = InstrCount

\* C8: a name defined more than once does not stop the assembly, and every
\* reference to it resolves against its last definition
C8_LastDefinitionWins ==
    pc \notin BeforeResolving =>
        /\ (~HasUndefinedRef => panic_message # "no entry found for key")
        /\ Resolved =>
              \A i \in RefLines :
                  Cardinality(DefsOf(lines[i].arg.name)) >= 2 =>
                      instructions[InstrBefore(i) + 1].arg =
                          InstrBefore(SetMax(DefsOf(lines[i].arg.name))) - (InstrBefore(i) + 1)

C8_Witness ==
    /\ Resolved /\ pc = "create"
    /\ \E i \in RefLines : \E d1, d2 \in DefsOf(lines[i].arg.name) :
          d1 < i /\ i < d2 /\ InstrBefore(d1) # InstrBefore(d2)

\* C10: an undefined label ends the run inside resolve, before anything is encoded
\* and with the destination as it was, and it is what is reported even when an
\* unknown opcode comes first; an unknown opcode is met only after the destination
\* has been created
C10_UndefinedLabelBeforeAnyOutput ==
    /\ (panic_message = "no entry found for key" =>
            dest = dest_before /\ bytecodes_vec = <<>> /\ instructions = <<>>)
    /\ ((HasUndefinedRef /\ pc \notin BeforeResolving) =>
            pc = "exited" /\ panic_message = "no entry found for key")
    /\ (panic_message = "Unrecognised opcode" => dest = FileWith(<<>>) /\ ~HasUndefinedRef)

C10_Witness ==
    /\ panic_message = "no entry found for key"
    /\ dest_before = FileWith(OldWords)
    /\ \E i \in RefLines : \E j \in 1..(i - 1) :
          /\ DefsOf(lines[i].arg.name) = {}
          /\ lines[j].kind = "Instruction" /\ lines[j].opcode \notin Opcodes

(***************************************************************************)
(* encode_instruction on its own: every opcode with every i16 argument.    *)
(***************************************************************************)
I16 == I16_MIN..I16_MAX

Defaults ==
    /\ source = <<>>
    /\ dest_before = FileAbsent
    /\ dest = FileAbsent
    /\ raw_lines = <<>>
    /\ lines = <<>>
    /\ addressed = <<>>
    /\ label_addresses = EmptyMap
    /\ bytecodes_vec = <<>>
    /\ buffer = <<>>
    /\ result = "none"
    /\ stdout = <<"Hello, world!">>
    /\ panic_message = "none"
    /\ exit_status = "running"
    /\ address = 0
    /\ n_instr = 0

InitEncode ==
    /\ pc = "encode_instruction"
    /\ \E o \in Opcodes, v \in I16 : instructions = <<[opcode |-> o, arg |-> v]>>
    /\ overflow_checks = FALSE
    /\ Defaults

EncodeInstruction ==
    /\ pc = "encode_instruction"
    /\ bytecodes_vec' = <<encode_instruction(instructions[1])>>
    /\ pc' = "encoded"
    /\ UNCHANGED <<env, scan, dest, raw_lines, lines, addressed, label_addresses, instructions,
                   buffer, result, stdout, panic_message, exit_status>>

SpecEncode == InitEncode /\ [][EncodeInstruction]_vars

\* bitwise or of two n-bit unsigned numbers
RECURSIVE BitOr(_, _, _)
BitOr(a, b, n) ==
    IF n = 0 THEN 0
    ELSE (IF a % 2 = 1 \/ b % 2 = 1 THEN 1 ELSE 0) + 2 * BitOr(a \div 2, b \div 2, n - 1)

\* bits 0-15 and bits 16-31 of a 32-bit two's-complement word
LowHalf(w)  == w % 65536
HighHalf(w) == (w \div 65536) % 65536

\* the i32 with the given halves
WordOf(high, low) == (IF high >= 32768 THEN high - 65536 ELSE high) * 65536 + low

\* C3: the word of an opcode with code c and an i16 argument v has c in bits 0-15 and
\* the 16-bit two's complement of v in bits 16-31, and equals c | (v << 16)
C3_WordLayout ==
    pc = "encoded" =>
        LET c == CodeOf(instructions[1].opcode)
            v == instructions[1].arg
            w == bytecodes_vec[1]
        IN  /\ w >= -2147483647 - 1 /\ w <= 2147483647
            /\ LowHalf(w) = c
            /\ HighHalf(w) = (IF v < 0 THEN v + 65536 ELSE v)
            /\ w = WordOf(BitOr(HighHalf(c), HighHalf(v * 65536), 16),
                          BitOr(LowHalf(c), LowHalf(v * 65536), 16))

C3_Witness ==
    /\ pc = "encoded"
    /\ instructions[1].opcode = OP_jle /\ instructions[1].arg = -2
    /\ bytecodes_vec[1] = -131064

(***************************************************************************)
(* One instruction line with every argument token, from parse_line to      *)
(* resolve.                                                                *)
(***************************************************************************)
TokenAlphabet == {"-", "0", "1", "9", ":", "x", " "}

\* argument tokens beyond MaxTokenLen, around the ends of the i16 range
LongTokens ==
    { <<"3", "2", "7", "6", "7">>, <<"3", "2", "7", "6", "8">>,
      <<"-", "3", "2", "7", "6", "8">>, <<"-", "3", "2", "7", "6", "9">>,
      <<"0", "0", "0", "7">>, <<"1", "e", "3">>, <<"0", "x", "1", "0">>, <<"1", ".", "5">> }

\* the text after the opcode and its space
ArgumentTexts == UNION {[1..n -> TokenAlphabet] : n \in 0..MaxTokenLen} \cup LongTokens

InstructionTexts ==
    {OP_const, OP_jmp} \cup {o \o <<" ">> \o t : o \in {OP_const, OP_jmp}, t \in ArgumentTexts}

\* the state after read_lines has returned a source of one instruction line
InitParse ==
    /\ pc = "parse_lines"
    /\ source \in {<<t>> : t \in InstructionTexts}
    /\ raw_lines = source
    /\ dest_before = FileAbsent
    /\ dest = FileAbsent
    /\ lines = <<>>
    /\ addressed = <<>>
    /\ label_addresses = EmptyMap
    /\ instructions = <<>>
    /\ bytecodes_vec = <<>>
    /\ buffer = <<>>
    /\ result = "none"
    /\ stdout = <<"Hello, world!">>
    /\ panic_message = "none"
    /\ exit_status = "running"
    /\ address = 0
    /\ n_instr = 0
    /\ overflow_checks = FALSE

NextParse ==
    \/ ParseLines
    \/ AssignAddresses
    \/ FindLabels
    \/ ResolveLines

SpecParse == InitParse /\ [][NextParse]_vars

\* the pieces of the only source line
Pieces == split_space(raw_lines[1])

\* the line has no second token, or one that is neither a label reference nor a
\* decimal i16
NoUsableArgument ==
    \/ Len(Pieces) < 2
    \/ ~starts_with_colon(Pieces[2]) /\ ~str_parse_i16(Pieces[2]).ok

\* lines whose second token is empty, not a number, or a decimal out of range
C6_Examples ==
    { OP_const, OP_const \o <<" ">>, OP_const \o <<" ", " ", "1">>,
      OP_const \o <<" ", "x">>, OP_const \o <<" ", "-">>, OP_const \o <<" ", "1", "x">>,
      OP_const \o <<" ", "1", "-">>, OP_const \o <<" ", "-", "-", "1">>,
      OP_const \o <<" ", "3", "2", "7", "6", "8">>,
      OP_const \o <<" ", "-", "3", "2", "7", "6", "9">>,
      OP_const \o <<" ", "1", "e", "3">>, OP_const \o <<" ", "1", ".", "5">> }

\* C6: an instruction line without a second token, or with one that neither starts
\* with ':' nor is a decimal i16, gets Argument::None, resolves to 0 and does not
\* stop the run
C6_NoArgumentIsZero ==
    /\ (pc # "parse_lines" /\ (NoUsableArgument \/ raw_lines[1] \in C6_Examples)) =>
            /\ lines[1].kind = "Instruction"
            /\ lines[1].arg = ArgNone
            /\ panic_message = "none"
            /\ pc # "exited"
            /\ pc = "create" => instructions = <<[opcode |-> lines[1].opcode, arg |-> 0]>>
    /\ (pc # "parse_lines" /\ raw_lines[1] = OP_const \o <<" ", "-", "1">>) =>
            lines[1].arg = ArgInteger(-1)

C6_Witness ==
    /\ pc = "create"
    /\ raw_lines[1] = OP_jmp \o <<" ", "3", "2", "7", "6", "8">>
    /\ instructions = <<[opcode |-> OP_jmp, arg |-> 0]>>

(***************************************************************************)
(* Long programs: the loop of lines_with_addresses, one line per step.     *)
(* Instruction lines without a label reference only move the counter and   *)
(* are not kept; `addressed` holds the label definitions and the           *)
(* references, which is all that find_labels and resolve_arg read.  Label   *)
(* definitions, references and the end of the source are placed where the  *)
(* counter is at an end of the i16 range or next to it.                    *)
(***************************************************************************)
EdgeAddresses == {0, 1, I16_MAX, I16_MIN, I16_MIN + 1}

InitLong ==
    /\ pc = "lines_with_addresses"
    /\ overflow_checks \in BOOLEAN
    /\ instructions = <<>>
    /\ Defaults

\* `address += 1`: with overflow checks 32767 + 1 panics, without them it wraps
Increment ==
    \/ /\ ~(overflow_checks /\ address = I16_MAX)
       /\ address' = WrapI16(address + 1)
       /\ n_instr' = n_instr + 1
       /\ UNCHANGED <<pc, panic_message, exit_status>>
    \/ /\ overflow_checks /\ address = I16_MAX
       /\ Panic("arithmetic operation overflowed")
       /\ UNCHANGED <<address, n_instr>>

\* an Instruction line without a label reference
LoopInstruction ==
    /\ pc = "lines_with_addresses"
    /\ n_instr < MaxInstructions
    /\ Increment
    /\ UNCHANGED <<env, dest, raw_lines, lines, addressed, label_addresses, instructions,
                   bytecodes_vec, buffer, result, stdout>>

\* the line `jmp :L`
LoopReference ==
    /\ pc = "lines_with_addresses"
    /\ n_instr < MaxInstructions
    /\ address \in EdgeAddresses
    /\ \A i \in 1..Len(addressed) : addressed[i].line.kind # "Instruction"
    /\ addressed' = Append(addressed, [line |-> parse_line(SRC_jmp_L), address |-> address])
    /\ Increment
    /\ UNCHANGED <<env, dest, raw_lines, lines, label_addresses, instructions,
                   bytecodes_vec, buffer, result, stdout>>

\* the line `:L`
LoopLabel ==
    /\ pc = "lines_with_addresses"
    /\ address \in EdgeAddresses
    /\ \A i \in 1..Len(addressed) : addressed[i].line.kind # "Label"
    /\ addressed' = Append(addressed, [line |-> parse_line(SRC_def_L), address |-> address])
    /\ UNCHANGED <<env, scan, pc, dest, raw_lines, lines, label_addresses, instructions,
                   bytecodes_vec, buffer, result, stdout, panic_message, exit_status>>

\* the source is exhausted and lines_with_addresses returns
LoopEnd ==
    /\ pc = "lines_with_addresses"
    /\ address \in EdgeAddresses
    /\ pc' = "find_labels"
    /\ UNCHANGED <<env, scan, dest, raw_lines, lines, addressed, label_addresses,
                   instructions, bytecodes_vec, buffer, result, stdout, panic_message,
                   exit_status>>

NextLong ==
    \/ LoopInstruction
    \/ LoopReference
    \/ LoopLabel
    \/ LoopEnd
    \/ FindLabels
    \/ ResolveLines

SpecLong == InitLong /\ [][NextLong]_vars

Congruent16(a, b) == (a - b) % 65536 = 0

\* the reference kept in `addressed`, when resolve has returned
TheReference == CHOOSE i \in 1..Len(addressed) : addressed[i].line.kind = "Instruction"

\* the displacement as the integers give it, before it is stored in an i16
ExactDisplacement ==
    label_addresses[addressed[TheReference].line.arg.name]
        - (addressed[TheReference].address + 1)

LongResolved == pc = "create" /\ Len(instructions) = 1

\* C9 as stated: whenever the counter or a displacement leaves the i16 range the
\* value wraps and the run goes on without an error
C9_AlwaysWrapsSilently ==
    /\ panic_message # "arithmetic operation overflowed"
    /\ address \in I16 /\ Congruent16(address, n_instr)
    /\ LongResolved =>
          /\ instructions[1].arg \in I16
          /\ Congruent16(instructions[1].arg, ExactDisplacement)

\* C9 amended: no check against the i16 range stops the run in a build without
\* overflow checks, where the counter and the displacement wrap modulo 2^16; a
\* build with overflow checks panics when the counter would pass 32767, and never
\* otherwise
C9_WrapsOrPanics ==
    /\ address \in I16 /\ Congruent16(address, n_instr)
    /\ LongResolved =>
          /\ instructions[1].arg \in I16
          /\ Congruent16(instructions[1].arg, ExactDisplacement)
    /\ ~overflow_checks => panic_message # "arithmetic operation overflowed"
    /\ overflow_checks =>
          /\ n_instr <= I16_MAX
          /\ (panic_message = "arithmetic operation overflowed") =>
                (pc = "exited" /\ n_instr = I16_MAX /\ address = I16_MAX)
          /\ LongResolved =>
                /\ addressed[TheReference].address < I16_MAX
                /\ ExactDisplacement \in I16

C9_Witness ==
    /\ ~overflow_checks
    /\ LongResolved
    /\ n_instr > I16_MAX /\ address < 0
    /\ ExactDisplacement \notin I16
    /\ addressed[TheReference].address = 0
    /\ instructions[1].arg = I16_MAX

====
